---- MODULE Spec2Model ----
(***************************************************************************)
(* Model of server.mjs: the single-endpoint relay POST /addToShopify.      *)
(*                                                                         *)
(* JavaScript values are tagged records: Undef, Str(s), Num(n).  A request *)
(* body is a record of the eight schema keys plus a flag saying whether    *)
(* the body carries a key the schema does not know.                        *)
(*                                                                         *)
(* The handler is an async function: everything up to `await fetch(...)`   *)
(* runs without interruption (Handle), the continuation after the fetch    *)
(* settles runs up to `await shopifyResponse.json()` (FetchResolve /       *)
(* FetchReject), and the continuation after the body is read sends the     *)
(* response (JsonSettle).                                                  *)
(***************************************************************************)
EXTENDS Integers, Sequences, FiniteSets, TLC

\* ---------------------------------------------------------------- bounds
NumReq == 2          \* requests that may be in flight at once

Req == 1..NumReq

\* ------------------------------------------------------------ JS values
Undef == [t |-> "undefined"]
Str(s) == [t |-> "string", s |-> s]
Num(n) == [t |-> "number", n |-> n]

IsStr(v) == v.t = "string"
IsNum(v) == v.t = "number"

\* JavaScript truthiness of a value (used by `!x`, `if (x)` and `x || y`).
Truthy(v) ==
    CASE v.t = "undefined" -> FALSE
      [] v.t = "string" -> v.s # ""
      [] v.t = "number" -> v.n # 0

\* ------------------------------------------------------------- strings
\* First position >= i at which sep occurs in s, or 0 when there is none.
RECURSIVE IndexOf(_, _, _)
IndexOf(s, sep, i) ==
    IF i + Len(sep) - 1 > Len(s) THEN 0
    ELSE IF SubSeq(s, i, i + Len(sep) - 1) = sep THEN i
    ELSE IndexOf(s, sep, i + 1)

\* String.prototype.split(sep): the pieces of s between occurrences of sep.
RECURSIVE Split(_, _)
Split(s, sep) ==
    LET k == IndexOf(s, sep, 1)
    IN IF k = 0 THEN <<s>>
       ELSE <<SubSeq(s, 1, k - 1)>> \o Split(SubSeq(s, k + Len(sep), Len(s)), sep)

\* Array.prototype.join(sep).
RECURSIVE Join(_, _)
Join(xs, sep) ==
    IF Len(xs) = 0 THEN ""
    ELSE IF Len(xs) = 1 THEN xs[1]
    ELSE xs[1] \o sep \o Join(Tail(xs), sep)

TagSeparator == ", "

\* ---------------------------------------------------------- validation
KnownTlds == {"com"}

\* Joi.string().email(): one "@", a non-empty local part, and a domain of at
\* least two non-empty segments that ends in a registered top-level domain.
IsEmail(s) ==
    LET parts == Split(s, "@")
        segs == Split(parts[2], ".")
    IN /\ Len(parts) = 2
       /\ parts[1] # ""
       /\ Len(segs) >= 2
       /\ \A i \in 1..Len(segs) : segs[i] # ""
       /\ segs[Len(segs)] \in KnownTlds

\* National numbers (with country calling code) the numbering plan assigns.
AssignedNumbers == {"12133734253"}

\* parsePhoneNumberFromString(phone) with no default country, then isValid():
\* the text must be in international format (leading "+") and name an
\* assigned number.
PhoneIsValid(s) ==
    /\ Len(s) > 1
    /\ SubSeq(s, 1, 1) = "+"
    /\ SubSeq(s, 2, Len(s)) \in AssignedNumbers

Quote(key) == "\"" \o key \o "\""

NoError == ""

\* Joi.string() [.email()] [.required() | .optional()] applied to one key.
StringError(key, v, required, email) ==
    IF v = Undef
    THEN IF required THEN Quote(key) \o " is required" ELSE NoError
    ELSE IF ~IsStr(v) THEN Quote(key) \o " must be a string"
    ELSE IF v.s = "" THEN Quote(key) \o " is not allowed to be empty"
    ELSE IF email /\ ~IsEmail(v.s) THEN Quote(key) \o " must be a valid email"
    ELSE NoError

\* Joi.number().optional() applied to one key (the strings of the model's
\* input domain are not numeric, so none converts to a number).
NumberError(key, v) ==
    IF v = Undef \/ IsNum(v) THEN NoError
    ELSE Quote(key) \o " must be a number"

\* The first non-empty message of a sequence, or NoError.
RECURSIVE FirstError(_)
FirstError(errs) ==
    IF Len(errs) = 0 THEN NoError
    ELSE IF Head(errs) # NoError THEN Head(errs)
    ELSE FirstError(Tail(errs))

\* customerSchema.validate(req.body): error.details[0].message, or NoError.
\* Keys are checked in schema order and validation stops at the first
\* error; a key the schema does not name is reported after the known keys.
JoiError(b) ==
    FirstError(<<
        StringError("email", b.email, TRUE, TRUE),
        StringError("firstName", b.firstName, FALSE, FALSE),
        StringError("lastName", b.lastName, FALSE, FALSE),
        StringError("phone", b.phone, FALSE, FALSE),
        StringError("hearingLossLevel", b.hearingLossLevel, FALSE, FALSE),
        NumberError("averageVolume", b.averageVolume),
        NumberError("wordRecognitionScore", b.wordRecognitionScore),
        NumberError("wordsMissed", b.wordsMissed),
        IF b.unknownKey THEN Quote("unknownKey") \o " is not allowed" ELSE NoError
    >>)

PhoneMessage == "Enter a valid phone number in E.164 format"

\* Mutation of PhoneRejected: the phone check is left out.
PhoneRejectedSkipped(value) == FALSE

\* Lines 61-68: a phone that is given must parse and be valid.
PhoneRejected(value) ==
    Truthy(value.phone) /\ ~PhoneIsValid(value.phone.s)

\* --------------------------------------------------------- payload builder
\* Mutation of OrEmpty: `${x}` in place of `x || ''`.
OrEmptyTemplate(v) == IF v = Undef THEN "undefined" ELSE v.s

\* `x || ''` for an optional string field.
OrEmpty(v) == IF Truthy(v) THEN v.s ELSE ""

\* Mutation of Tags: the level is pushed twice.
TagsTwice(value) ==
    IF Truthy(value.hearingLossLevel)
    THEN <<value.hearingLossLevel.s, value.hearingLossLevel.s>>
    ELSE <<>>

\* Lines 71-74: the tags array.
Tags(value) ==
    IF Truthy(value.hearingLossLevel) THEN <<value.hearingLossLevel.s>> ELSE <<>>

\* Lines 80-88: the metafields array.
Metafields(value) ==
    IF Truthy(value.hearingLossLevel)
    THEN << [namespace |-> "custom",
             key |-> "hearing_loss_level",
             value |-> value.hearingLossLevel.s,
             type |-> "single_line_text_field"] >>
    ELSE <<>>

\* The readings `new Date()` may give during one run of the handler, in
\* milliseconds after the first of them.
Instants == {0, 1}

\* Date.prototype.toISOString() of such a reading.
Digits == <<"0", "1", "2", "3", "4", "5", "6", "7", "8", "9">>
ToISOString(tick) ==
    "2024-01-01T00:00:00.00" \o Digits[(tick % 10) + 1] \o "Z"

EmailMarketingConsent(tick) ==
    [state |-> "subscribed",
     opt_in_level |-> "single_opt_in",
     consent_updated_at |-> ToISOString(tick)]

SmsMarketingConsent(tick) ==
    [state |-> "subscribed",
     opt_in_level |-> "single_opt_in",
     consent_updated_at |-> ToISOString(tick),
     consent_collected_from |-> "SHOPIFY"]

\* Lines 104-118: the payload, built at clock readings t1 and t2.
ShopifyPayload(value, t1, t2) ==
    [customer |->
        [email |-> value.email.s,
         first_name |-> OrEmpty(value.firstName),
         last_name |-> OrEmpty(value.lastName),
         phone |-> OrEmpty(value.phone),
         verified_email |-> TRUE,
         accepts_marketing |-> TRUE,
         state |-> "enabled",
         tags |-> Join(Tags(value), TagSeparator),
         metafields |-> Metafields(value),
         email_marketing_consent |-> EmailMarketingConsent(t1),
         sms_marketing_consent |-> SmsMarketingConsent(t2)]]

\* ------------------------------------------------------------- inputs
\* Every request body of the bounded input domain.
AllBodies ==
    [email : {Undef, Str(""), Str("bad"), Str("a@b"), Str("a@b.com"), Num(7)},
     firstName : {Undef, Str(""), Str("Ann")},
     lastName : {Undef, Str("Lee")},
     phone : {Undef, Str(""), Str("2133734253"), Str("+12133734253")},
     hearingLossLevel : {Undef, Str(""), Str("moderate"), Str("mild, severe")},
     averageVolume : {Undef, Num(40), Str("loud")},
     wordRecognitionScore : {Undef, Num(80)},
     wordsMissed : {Undef, Num(3)},
     unknownKey : BOOLEAN]

EmptyBody ==
    [email |-> Undef, firstName |-> Undef, lastName |-> Undef, phone |-> Undef,
     hearingLossLevel |-> Undef, averageVolume |-> Undef,
     wordRecognitionScore |-> Undef, wordsMissed |-> Undef, unknownKey |-> FALSE]

MinimalBody == [EmptyBody EXCEPT !.email = Str("a@b.com")]

FullBody ==
    [MinimalBody EXCEPT !.firstName = Str("Ann"), !.lastName = Str("Lee"),
                        !.phone = Str("+12133734253"),
                        !.hearingLossLevel = Str("moderate"),
                        !.averageVolume = Num(40)]

BadPhoneBody == [MinimalBody EXCEPT !.phone = Str("2133734253")]

\* The bodies the concurrent requests of Spec carry.
Bodies == {EmptyBody, BadPhoneBody, MinimalBody, FullBody}

\* process.env after dotenv.config(): the two required variables.  (PORT
\* only selects the socket app.listen binds and is not part of the state.)
Envs ==
    [SHOPIFY_ACCESS_TOKEN : {Undef, Str(""), Str("shpat_1")},
     SHOPIFY_STORE_URL : {Undef, Str(""), Str("shop.myshopify.com")}]

\* What the upstream platform may answer.
UpstreamStatuses == {201, 422, 503}
CustomerJson == "{\"customer\":{\"id\":1}}"
ErrorsJson == "{\"errors\":{\"email\":[\"has already been taken\"]}}"
GatewayHtml == "<html>502 Bad Gateway</html>"
RawBodies == {CustomerJson, ErrorsJson, GatewayHtml}
TransportFaults == {"FetchError: connect ECONNREFUSED"}

Obj(o) == [t |-> "object", o |-> o]

\* Response.json(): the parsed body, or the SyntaxError the parse throws.
JsonParse(raw) ==
    CASE raw = CustomerJson ->
            [ok |-> TRUE, value |-> Obj([customer |-> [id |-> 1]])]
      [] raw = ErrorsJson ->
            [ok |-> TRUE,
             value |-> Obj([errors |-> [email |-> <<"has already been taken">>]])]
      [] OTHER ->
            [ok |-> FALSE, error |-> "FetchError: invalid json response body"]

\* Response.ok of node-fetch.
IsOk(status) == status >= 200 /\ status < 300

\* ---------------------------------------------------------------- state
VARIABLES
    env,        \* process.env, fixed at process start
    phase,      \* "init" | "listening" | "exited"
    pc,         \* per request: "idle" | "awaitFetch" | "awaitJson" | "done"
    body,       \* per request: req.body
    stages,     \* per request: the stages its handling has passed
    calls,      \* per request: the outbound calls it has issued
    upstream,   \* per request: what its outbound call produced
    resp        \* per request: the responses sent to the caller

vars == <<env, phase, pc, body, stages, calls, upstream, resp>>

NoBody == [none |-> TRUE]
NoUpstream == [kind |-> "none"]

Init ==
    /\ env \in Envs
    /\ phase = "init"
    /\ pc = [r \in Req |-> "idle"]
    /\ body = [r \in Req |-> NoBody]
    /\ stages = [r \in Req |-> <<>>]
    /\ calls = [r \in Req |-> <<>>]
    /\ upstream = [r \in Req |-> NoUpstream]
    /\ resp = [r \in Req |-> <<>>]

\* ------------------------------------------------------------- startup
\* Mutation of ConfigMissing: && in place of ||.
ConfigMissingBoth ==
    ~Truthy(env.SHOPIFY_ACCESS_TOKEN) /\ ~Truthy(env.SHOPIFY_STORE_URL)

\* Line 21: !SHOPIFY_ACCESS_TOKEN || !SHOPIFY_STORE_URL
ConfigMissing ==
    ~Truthy(env.SHOPIFY_ACCESS_TOKEN) \/ ~Truthy(env.SHOPIFY_STORE_URL)

\* Lines 17-24 and 164-165: the module body, run once.
Startup ==
    /\ phase = "init"
    /\ phase' = IF ConfigMissing THEN "exited" ELSE "listening"
    /\ UNCHANGED <<env, pc, body, stages, calls, upstream, resp>>

\* ----------------------------------------------------------- responses
Response(status, bd) == [status |-> status, body |-> bd]

\* Lines 46 and 64-66.
ValidationResponse(msg) == Response(400, [error |-> Str(msg)])

\* Mutation of UpstreamFailureResponse: a fixed status in place of the
\* upstream's.
UpstreamFailureMasked(status, errorData) ==
    Response(500, [error |-> errorData])

\* Line 148.
UpstreamFailureResponse(status, errorData) ==
    Response(status, [error |-> errorData])

\* Lines 154-157.
SuccessResponse(shopifyData) ==
    Response(200, [message |-> Str("Customer added to Shopify successfully"),
                   data |-> shopifyData])

\* Line 160.
ServerErrorResponse(error) ==
    Response(500, [message |-> Str("Internal Server Error"),
                   error |-> Str(error)])

\* Lines 125-135: the one request the handler sends upstream.
OutboundCall(payload) ==
    [method |-> "POST",
     url |-> "https://" \o env.SHOPIFY_STORE_URL.s
                 \o "/admin/api/2023-07/customers.json",
     accessToken |-> env.SHOPIFY_ACCESS_TOKEN.s,
     body |-> payload]

\* Mutation of AfterJson: the success branch passes the upstream status on.
AfterJsonPassThrough(status, raw) ==
    LET parsed == JsonParse(raw)
    IN IF ~parsed.ok THEN <<ServerErrorResponse(parsed.error)>>
       ELSE IF ~IsOk(status) THEN <<UpstreamFailureResponse(status, parsed.value)>>
       ELSE <<Response(status, SuccessResponse(parsed.value).body)>>

\* Mutation of AfterJson: the failure branch lacks its `return`.
AfterJsonNoReturn(status, raw) ==
    LET parsed == JsonParse(raw)
    IN IF ~parsed.ok THEN <<ServerErrorResponse(parsed.error)>>
       ELSE IF ~IsOk(status)
       THEN <<UpstreamFailureResponse(status, parsed.value),
              SuccessResponse(parsed.value)>>
       ELSE <<SuccessResponse(parsed.value)>>

\* Lines 145-161: the responses the handler sends once the upstream body has
\* been read, in order.  A body that does not parse makes json() throw, on
\* either branch, and the catch block answers.
AfterJson(status, raw) ==
    LET parsed == JsonParse(raw)
    IN IF ~parsed.ok THEN <<ServerErrorResponse(parsed.error)>>
       ELSE IF ~IsOk(status) THEN <<UpstreamFailureResponse(status, parsed.value)>>
       ELSE <<SuccessResponse(parsed.value)>>

\* ------------------------------------------------------------- actions
\* Mutation of Dispatch: a request waits while another is suspended (a
\* blocking outbound call).
DispatchSerial(r) ==
    /\ phase = "listening"
    /\ pc[r] = "idle"
    /\ \A q \in Req : pc[q] \notin {"awaitFetch", "awaitJson"}

\* Line 41: a request that has arrived is handed to the handler as soon as
\* the process is listening, whatever the other requests are doing.
Dispatch(r) ==
    /\ phase = "listening"
    /\ pc[r] = "idle"

\* Lines 41-135: the handler from its entry to `await fetch(...)`.
Handle(r, b) ==
    /\ Dispatch(r)
    /\ body' = [body EXCEPT ![r] = b]
    /\ IF JoiError(b) # NoError
       THEN /\ resp' = [resp EXCEPT ![r] = Append(@, ValidationResponse(JoiError(b)))]
            /\ stages' = [stages EXCEPT ![r] = <<"received", "responded">>]
            /\ pc' = [pc EXCEPT ![r] = "done"]
            /\ calls' = calls
       ELSE IF PhoneRejected(b)
       THEN /\ resp' = [resp EXCEPT ![r] = Append(@, ValidationResponse(PhoneMessage))]
            /\ stages' = [stages EXCEPT ![r] = <<"received", "responded">>]
            /\ pc' = [pc EXCEPT ![r] = "done"]
            /\ calls' = calls
       ELSE \E t1, t2 \in Instants :
            /\ t1 <= t2
            /\ calls' = [calls EXCEPT ![r] =
                            Append(@, OutboundCall(ShopifyPayload(b, t1, t2)))]
            /\ stages' = [stages EXCEPT ![r] =
                            <<"received", "validated", "built", "forwarded">>]
            /\ pc' = [pc EXCEPT ![r] = "awaitFetch"]
            /\ resp' = resp
    /\ UNCHANGED <<env, phase, upstream>>

\* Mutation of FetchReject: a failed call is issued once more.
FetchRejectRetry(r, e) ==
    /\ pc[r] = "awaitFetch"
    /\ IF Len(calls[r]) < 2
       THEN /\ calls' = [calls EXCEPT ![r] = Append(@, calls[r][1])]
            /\ UNCHANGED <<pc, stages, upstream, resp>>
       ELSE /\ upstream' = [upstream EXCEPT ![r] = [kind |-> "fault", error |-> e]]
            /\ resp' = [resp EXCEPT ![r] = Append(@, ServerErrorResponse(e))]
            /\ stages' = [stages EXCEPT ![r] = Append(@, "responded")]
            /\ pc' = [pc EXCEPT ![r] = "done"]
            /\ calls' = calls
    /\ UNCHANGED <<env, phase, body>>

\* Mutation of FetchReject: the fetch is outside the try, so the rejection
\* is unhandled and ends the process.
FetchRejectUncaught(r, e) ==
    /\ pc[r] = "awaitFetch"
    /\ upstream' = [upstream EXCEPT ![r] = [kind |-> "fault", error |-> e]]
    /\ pc' = [pc EXCEPT ![r] = "done"]
    /\ phase' = "exited"
    /\ UNCHANGED <<env, body, stages, calls, resp>>

\* Lines 125 and 158-161: the outbound call fails at transport level; the
\* rejection is caught and answered.
FetchReject(r, e) ==
    /\ pc[r] = "awaitFetch"
    /\ upstream' = [upstream EXCEPT ![r] = [kind |-> "fault", error |-> e]]
    /\ resp' = [resp EXCEPT ![r] = Append(@, ServerErrorResponse(e))]
    /\ stages' = [stages EXCEPT ![r] = Append(@, "responded")]
    /\ pc' = [pc EXCEPT ![r] = "done"]
    /\ UNCHANGED <<env, phase, body, calls>>

\* Lines 125-151: the upstream answers with a status line and headers; the
\* handler goes on to read the body (on either branch of line 145).
FetchResolve(r, status) ==
    /\ pc[r] = "awaitFetch"
    /\ upstream' = [upstream EXCEPT ![r] =
                       [kind |-> "response", status |-> status, body |-> <<>>]]
    /\ pc' = [pc EXCEPT ![r] = "awaitJson"]
    /\ UNCHANGED <<env, phase, body, stages, calls, resp>>

\* Lines 145-161: the upstream body has been read.
JsonSettle(r, raw) ==
    /\ pc[r] = "awaitJson"
    /\ upstream' = [upstream EXCEPT ![r].body = <<raw>>]
    /\ resp' = [resp EXCEPT ![r] = @ \o AfterJson(upstream[r].status, raw)]
    /\ stages' = [stages EXCEPT ![r] = Append(@, "responded")]
    /\ pc' = [pc EXCEPT ![r] = "done"]
    /\ UNCHANGED <<env, phase, body, calls>>

\* ------------------------------------------------------- specifications
\* The server with NumReq requests in flight.
Next ==
    \/ Startup
    \/ \E r \in Req, b \in Bodies : Handle(r, b)
    \/ \E r \in Req, e \in TransportFaults : FetchReject(r, e)
    \/ \E r \in Req, status \in UpstreamStatuses : FetchResolve(r, status)
    \/ \E r \in Req, raw \in RawBodies : JsonSettle(r, raw)

Spec == Init /\ [][Next]_vars

\* One request drawn from the whole input domain.
NextAny ==
    \/ Startup
    \/ Dispatch(1) /\ \E b \in AllBodies : Handle(1, b)
    \/ \E e \in TransportFaults : FetchReject(1, e)
    \/ \E status \in UpstreamStatuses : FetchResolve(1, status)
    \/ \E raw \in RawBodies : JsonSettle(1, raw)

PayloadSpec == Init /\ [][NextAny]_vars

\* The server, with the one progress guarantee the code gives: the module
\* body runs to its end (lines 10-165 hold no await).  Nothing makes the
\* outbound call settle: lines 125-135 pass no timeout and no abort signal,
\* so FetchReject, FetchResolve and JsonSettle carry no fairness.
LiveSpec == Spec /\ WF_vars(Startup)

\* ================================================================ claims
Received(r) == body[r] # NoBody

\* The conditions under which the input validator must reject, as the
\* specification words them.
EmailFails(b) ==
    \/ b.email = Undef
    \/ ~IsStr(b.email)
    \/ b.email.s = ""
    \/ ~IsEmail(b.email.s)

PhoneFails(b) ==
    /\ b.phone # Undef
    /\ ~IsStr(b.phone) \/ ~PhoneIsValid(b.phone.s)

\* The request passed both validation steps (it was forwarded).
Forwarded(r) == Received(r) /\ JoiError(body[r]) = NoError /\ ~PhoneRejected(body[r])

Faulted(r) == upstream[r].kind = "fault"
Answered(r) == upstream[r].kind = "response" /\ upstream[r].body # <<>>
RawOf(r) == upstream[r].body[1]

\* C1: a request whose email is missing, empty or not a valid email, or
\* whose phone is given but is no valid international number, is answered
\* 400 (once, at once) and never issues an outbound call.
C1_InvalidInputRejectedBeforeCall ==
    \A r \in Req :
        (Received(r) /\ (EmailFails(body[r]) \/ PhoneFails(body[r])))
        => /\ calls[r] = <<>>
           /\ upstream[r] = NoUpstream
           /\ Len(resp[r]) = 1
           /\ resp[r][1].status = 400
           /\ pc[r] = "done"

\* C1 witness: an input with a valid email and a phone that is not in
\* international format has been rejected.
C1_Witness ==
    \E r \in Req :
        /\ Received(r)
        /\ ~EmailFails(body[r])
        /\ body[r].phone = Str("2133734253")
        /\ resp[r] = <<ValidationResponse(PhoneMessage)>>

\* C2 as stated: every non-success upstream status is answered with that
\* very status (and the upstream body under "error").
C2_Original ==
    \A r \in Req :
        (pc[r] = "done" /\ Answered(r) /\ ~IsOk(upstream[r].status))
        => /\ Len(resp[r]) = 1
           /\ resp[r][1].status = upstream[r].status

\* C2 amended: a non-success upstream status whose body parses as JSON is
\* answered with that very status and the body {error: <parsed body>}; a
\* non-success status whose body does not parse is answered 500.
C2_UpstreamFailurePassedThrough ==
    \A r \in Req :
        (pc[r] = "done" /\ Answered(r) /\ ~IsOk(upstream[r].status))
        => IF JsonParse(RawOf(r)).ok
           THEN resp[r] = << [status |-> upstream[r].status,
                              body |-> [error |-> JsonParse(RawOf(r)).value]] >>
           ELSE Len(resp[r]) = 1 /\ resp[r][1].status = 500

\* C2 witness: upstream 422 with the errors object was passed through.
C2_Witness ==
    \E r \in Req :
        /\ pc[r] = "done"
        /\ upstream[r] = [kind |-> "response", status |-> 422, body |-> <<ErrorsJson>>]
        /\ resp[r][1].status = 422
        /\ resp[r][1].body =
              [error |-> Obj([errors |-> [email |-> <<"has already been taken">>]])]

\* C3 as stated: every success upstream status is answered 200 with the
\* confirmation message.
C3_Original ==
    \A r \in Req :
        (pc[r] = "done" /\ Answered(r) /\ IsOk(upstream[r].status))
        => /\ Len(resp[r]) = 1
           /\ resp[r][1].status = 200

\* C3 amended: a success upstream status whose body parses as JSON is
\* answered 200 with the fixed message and the parsed body as data, never
\* with the upstream status; a success status whose body does not parse is
\* answered 500.
C3_UpstreamSuccessAnswered200 ==
    \A r \in Req :
        (pc[r] = "done" /\ Answered(r) /\ IsOk(upstream[r].status))
        => IF JsonParse(RawOf(r)).ok
           THEN resp[r] =
                  << [status |-> 200,
                      body |-> [message |-> Str("Customer added to Shopify successfully"),
                                data |-> JsonParse(RawOf(r)).value]] >>
           ELSE Len(resp[r]) = 1 /\ resp[r][1].status = 500

\* C3 witness: upstream 201 with a customer record was answered 200.
C3_Witness ==
    \E r \in Req :
        /\ pc[r] = "done"
        /\ upstream[r] = [kind |-> "response", status |-> 201, body |-> <<CustomerJson>>]
        /\ resp[r][1].status = 200
        /\ resp[r][1].body.data = Obj([customer |-> [id |-> 1]])

\* C4: a request that passes validation has issued exactly one outbound
\* call, before and after any upstream outcome; no request ever issues more
\* than one.
C4_ExactlyOneOutboundCall ==
    \A r \in Req :
        /\ Len(calls[r]) <= 1
        /\ Forwarded(r) => Len(calls[r]) = 1

\* C4 witness: the outbound call failed at transport level, the request was
\* answered, and it had made one call.
C4_Witness ==
    \E r \in Req :
        /\ pc[r] = "done"
        /\ Faulted(r)
        /\ Len(calls[r]) = 1

\* C5: a transport fault or an unparsable upstream body is answered 500
\* with {message, error: <stringified error>}; the process is still
\* listening in every state in which some request has been handled, and a
\* request that has not been handled yet can still be.
C5_FaultsAnswered500 ==
    /\ \A r \in Req :
          /\ (pc[r] = "done" /\ Faulted(r))
             => resp[r] = << [status |-> 500,
                              body |-> [message |-> Str("Internal Server Error"),
                                        error |-> Str(upstream[r].error)]] >>
          /\ (pc[r] = "done" /\ Answered(r) /\ ~JsonParse(RawOf(r)).ok)
             => resp[r] = << [status |-> 500,
                              body |-> [message |-> Str("Internal Server Error"),
                                        error |-> Str(JsonParse(RawOf(r)).error)]] >>
    /\ (\E r \in Req : Received(r)) => phase = "listening"
    /\ \A q \in Req :
          (phase = "listening" /\ pc[q] = "idle")
          => ENABLED (\E b \in Bodies : Handle(q, b))

\* C5 witness: one request was answered 500 after a transport fault, a
\* second after an unparsable body, and the process is listening.
C5_Witness ==
    /\ phase = "listening"
    /\ \E r \in Req : pc[r] = "done" /\ Faulted(r) /\ resp[r][1].status = 500
    /\ \E r \in Req : /\ pc[r] = "done" /\ Answered(r)
                      /\ RawOf(r) = GatewayHtml /\ resp[r][1].status = 500

\* `!x` of line 21: the variable is unset or empty.
Absent(v) == v = Undef \/ v = Str("")

\* C6: with the credential or the store domain absent the process never
\* listens and no request is ever handled; with both present it never
\* exits, and from its initial state it can start listening.
C6_StartupConfiguration ==
    /\ (Absent(env.SHOPIFY_ACCESS_TOKEN) \/ Absent(env.SHOPIFY_STORE_URL))
       => /\ phase \in {"init", "exited"}
          /\ phase = "init" => ENABLED Startup
          /\ \A r \in Req : ~Received(r) /\ resp[r] = <<>> /\ calls[r] = <<>>
    /\ (~Absent(env.SHOPIFY_ACCESS_TOKEN) /\ ~Absent(env.SHOPIFY_STORE_URL))
       => /\ phase \in {"init", "listening"}
          /\ phase = "init" => ENABLED Startup

\* C6 witness: the credential is present, the store domain is not, and the
\* process has exited.
C6_Witness ==
    /\ phase = "exited"
    /\ env.SHOPIFY_ACCESS_TOKEN = Str("shpat_1")
    /\ env.SHOPIFY_STORE_URL = Undef

\* C7: without hearingLossLevel the payload's tags string is empty (no tag)
\* and its metafields list is empty; with hearingLossLevel = v the tags
\* string is the single tag v, and the metafields list holds exactly one
\* entry, custom / hearing_loss_level / v.
C7_TagAndMetadataFromLevel ==
    \A r \in Req :
        calls[r] # <<>>
        => LET customer == calls[r][1].body.customer
               level == body[r].hearingLossLevel
           IN IF level = Undef
              THEN customer.tags = "" /\ customer.metafields = <<>>
              ELSE /\ customer.tags = level.s
                   /\ Len(customer.metafields) = 1
                   /\ customer.metafields[1].namespace = "custom"
                   /\ customer.metafields[1].key = "hearing_loss_level"
                   /\ customer.metafields[1].value = level.s

\* C7 witness: a payload was sent for an input whose level is "moderate",
\* with that one tag and one metadata entry.
C7_Witness ==
    \E r \in Req :
        /\ calls[r] # <<>>
        /\ body[r].hearingLossLevel = Str("moderate")
        /\ calls[r][1].body.customer.tags = "moderate"
        /\ Len(calls[r][1].body.customer.metafields) = 1

\* C8: every payload sent upstream is enabled, verified and opted in to
\* marketing, carries both consents as subscribed / single_opt_in, and has
\* first name, last name and phone equal to the input's value when given
\* and to the empty string when not.
C8_FixedFlagsAndDefaults ==
    \A r \in Req : \A i \in 1..Len(calls[r]) :
        LET customer == calls[r][i].body.customer
            InputOrEmpty(v) == IF v = Undef THEN "" ELSE v.s
        IN /\ customer.state = "enabled"
           /\ customer.verified_email = TRUE
           /\ customer.accepts_marketing = TRUE
           /\ customer.email_marketing_consent.state = "subscribed"
           /\ customer.email_marketing_consent.opt_in_level = "single_opt_in"
           /\ customer.sms_marketing_consent.state = "subscribed"
           /\ customer.sms_marketing_consent.opt_in_level = "single_opt_in"
           /\ customer.first_name = InputOrEmpty(body[r].firstName)
           /\ customer.last_name = InputOrEmpty(body[r].lastName)
           /\ customer.phone = InputOrEmpty(body[r].phone)

\* C8 witness: a payload was sent for an input with a last name and a phone
\* but no first name.
C8_Witness ==
    \E r \in Req :
        /\ calls[r] # <<>>
        /\ body[r].firstName = Undef
        /\ body[r].lastName = Str("Lee")
        /\ body[r].phone = Str("+12133734253")
        /\ calls[r][1].body.customer.first_name = ""
        /\ calls[r][1].body.customer.last_name = "Lee"

\* Everything the handling of request r owns.
ReqState(r) == <<pc[r], body[r], stages[r], calls[r], upstream[r], resp[r]>>

\* A request that has not been answered can take its next step whatever
\* the other requests are doing.
CanProceed(q) ==
    /\ pc[q] = "idle" => ENABLED (\E b \in Bodies : Handle(q, b))
    /\ pc[q] = "awaitFetch"
       => /\ ENABLED (\E e \in TransportFaults : FetchReject(q, e))
          /\ ENABLED (\E status \in UpstreamStatuses : FetchResolve(q, status))
    /\ pc[q] = "awaitJson" => ENABLED (\E raw \in RawBodies : JsonSettle(q, raw))

C9_State ==
    /\ \A r, q \in Req :
          (pc[r] = "done" /\ pc[q] = "done"
              /\ body[r] = body[q] /\ upstream[r] = upstream[q])
          => resp[r] = resp[q]
    /\ phase = "listening" => \A q \in Req : CanProceed(q)

C9_Step ==
    \A r, q \in Req :
        r # q => (ReqState(r)' = ReqState(r) \/ ReqState(q)' = ReqState(q))

\* C9: two answered requests with the same input and the same upstream
\* result have the same response; while the process listens, every request
\* that is not answered yet can take its next step (be validated and
\* forwarded, or be answered) whatever the state of the others; and no step
\* changes the state of more than one request.
C9_RequestsIndependent == []C9_State /\ [][C9_Step]_vars

\* C9 witness: two requests are in flight at once, one suspended on its
\* outbound call and the other on reading the upstream body, while a third
\* request (when there is one) has not been handled yet.
C9_Witness ==
    \E r, q \in Req :
        /\ r # q
        /\ pc[r] = "awaitFetch"
        /\ pc[q] = "awaitJson"
        /\ \A o \in Req \ {r, q} : pc[o] = "idle"

LinearOrder == <<"received", "validated", "built", "forwarded", "responded">>

StageIndex(name) == CHOOSE i \in 1..Len(LinearOrder) : LinearOrder[i] = name

\* The stages are passed in the linear order, starting at "received".
InLinearOrder(st) ==
    /\ st # <<>> => st[1] = "received"
    /\ \A i \in 1..Len(st) : \E k \in 1..Len(LinearOrder) : LinearOrder[k] = st[i]
    /\ \A i \in 1..(Len(st) - 1) : StageIndex(st[i]) < StageIndex(st[i + 1])

IsPrefix(s1, s2) == Len(s1) <= Len(s2) /\ SubSeq(s2, 1, Len(s1)) = s1

C10_State ==
    \A r \in Req :
        /\ Len(resp[r]) <= 1
        /\ pc[r] = "done" <=> Len(resp[r]) = 1
        /\ (Received(r) /\ ~Forwarded(r)) => Len(resp[r]) = 1
        /\ (Faulted(r) \/ Answered(r)) => Len(resp[r]) = 1
        /\ InLinearOrder(stages[r])
        /\ Len(resp[r]) = 1 <=> (stages[r] # <<>> /\ stages[r][Len(stages[r])] = "responded")
        /\ Forwarded(r) <=> (Len(stages[r]) >= 4 /\ stages[r][4] = "forwarded")
        /\ (Forwarded(r) /\ resp[r] # <<>>) => (Faulted(r) \/ Answered(r))
        /\ phase = "listening" /\ pc[r] \in {"awaitFetch", "awaitJson"} => CanProceed(r)

C10_Step ==
    \A r \in Req :
        /\ IsPrefix(stages[r], stages'[r])
        /\ resp[r] # <<>> => (resp'[r] = resp[r] /\ calls'[r] = calls[r])

\* A request that was received is eventually answered.
C10_Answered == \A r \in Req : Received(r) ~> (Len(resp[r]) = 1)

\* C10 as stated: every request receives exactly one response (so every
\* received request is eventually answered), in the linear order, answered
\* only after its call settled and with nothing after the response.
C10_Original ==
    []C10_State /\ [][C10_Step]_vars /\ C10_Answered

\* C10 amended: no request has more than one response; a request that
\* fails validation has its response at once, and a forwarded request has
\* exactly one as soon as, and not before, its outbound call has failed or
\* its upstream body has been read (a call that never settles leaves it
\* unanswered); the stages are passed in the order received, validated,
\* built, forwarded, responded; once a response is sent, no call and no
\* response follows.
C10_OneResponseLinearOrder ==
    []C10_State /\ [][C10_Step]_vars

\* C10 witness: a request has passed all five stages and was answered 200.
C10_Witness ==
    \E r \in Req :
        /\ pc[r] = "done"
        /\ stages[r] = LinearOrder
        /\ resp[r][1].status = 200

====
